---- MODULE Spec2Model ----
(***************************************************************************)
(* Model of backend/src/utils/crypto.ts: key-pair generation, NaCl box     *)
(* encryption/decryption and AES-GCM encryption/decryption, together with  *)
(* the codecs (base64, UTF-8, hex) the five functions go through.          *)
(*                                                                         *)
(* Texts are sequences of characters.  A base64 character is its index in  *)
(* the base64 alphabet (0..63); PadChar is "=" and BadChar is a character  *)
(* outside the alphabet.  A plaintext is a sequence of Unicode code        *)
(* points.  Bytes are 0..255.                                              *)
(*                                                                         *)
(* A call's outcome is a record [ok, val, err]: a returned value, or the   *)
(* exception the call throws.                                              *)
(***************************************************************************)
EXTENDS Integers, Sequences, FiniteSets, TLC

\* ------------------------------------------------------------------ bounds
\* Number of distinct values the entropy source can return to one draw.
MaxDraw == 2

\* ------------------------------------------------------- program constants
crypto_box_PUBLICKEYBYTES == 32
crypto_box_SECRETKEYBYTES == 32
crypto_secretbox_KEYBYTES == 32
crypto_secretbox_NONCEBYTES == 24
crypto_secretbox_OVERHEAD == 16

\* ----------------------------------------------------------------- outcomes
NoVal == <<>>
Ok(v) == [ok |-> TRUE, val |-> v, err |-> "none"]
Throw(e) == [ok |-> FALSE, val |-> NoVal, err |-> e]

\* ------------------------------------------------------------------- bytes
Byte == 0..255

\* the sequence of the n values f[1], ..., f[n]
SeqOf(f, n) == SubSeq(f, 1, n)

RECURSIVE XorBits(_, _, _)
XorBits(a, b, n) ==
    IF n = 0 THEN 0
    ELSE (((a % 2) + (b % 2)) % 2) + 2 * XorBits(a \div 2, b \div 2, n - 1)

Xor(a, b) == XorBits(a, b, 8)

RECURSIVE Pow2(_)
Pow2(n) == IF n = 0 THEN 1 ELSE 2 * Pow2(n - 1)

\* bytes with bit `bit` (0..7) of byte `i` (1-based) flipped
FlipBit(bytes, i, bit) == [bytes EXCEPT ![i] = Xor(@, Pow2(bit))]

\* ------------------------------------------------------------------ base64
PadChar == 64
BadChar == 65
B64Alphabet == 0..63

\* util.encodeBase64: three bytes become four characters, the tail padded
encodeBase64(arr) ==
    LET n == Len(arr)
        byte(k) == IF k <= n THEN arr[k] ELSE 0
    IN SeqOf([j \in 1..(4 * ((n + 2) \div 3)) |->
          LET g == 3 * ((j - 1) \div 4) IN
          CASE j % 4 = 1 -> byte(g + 1) \div 4
            [] j % 4 = 2 -> ((byte(g + 1) % 4) * 16) + (byte(g + 2) \div 16)
            [] j % 4 = 3 -> IF g + 2 > n THEN PadChar
                            ELSE ((byte(g + 2) % 16) * 4) + (byte(g + 3) \div 64)
            [] OTHER -> IF g + 3 > n THEN PadChar ELSE byte(g + 3) % 64],
             4 * ((n + 2) \div 3))

\* validateBase64: /^(?:[A-Za-z0-9+\/]{2}[A-Za-z0-9+\/=]{2})*$/
validateBase64(s) ==
    /\ Len(s) % 4 = 0
    /\ \A i \in 1..Len(s) :
          IF i % 4 \in {1, 2} THEN s[i] \in B64Alphabet
          ELSE s[i] \in B64Alphabet \cup {PadChar}

\* the number of characters before the first "=" at or after position i
RECURSIVE PadStartFrom(_, _)
PadStartFrom(s, i) ==
    IF i > Len(s) \/ s[i] = PadChar THEN i - 1 ELSE PadStartFrom(s, i + 1)

PadStart(s) == PadStartFrom(s, 1)

\* the bytes of the first n characters of s, all of the alphabet; a trailing
\* group of two or three characters gives one or two bytes, a single trailing
\* character none
SextetsToBytes(s, n) ==
    SeqOf([i \in 1..((n * 6) \div 8) |->
       LET j == ((8 * (i - 1)) \div 6) + 1 IN
       CASE i % 3 = 1 -> (s[j] * 4) + (s[j + 1] \div 16)
         [] i % 3 = 2 -> ((s[j] % 16) * 16) + (s[j + 1] \div 4)
         [] OTHER -> ((s[j] % 4) * 64) + s[j + 1]],
          (n * 6) \div 8)

\* the bytes a base64 text holds, up to its first "="
Base64Bytes(s) == SextetsToBytes(s, PadStart(s))

\* "=" appears only as a suffix of at most two characters
PadOnlyAtEnd(s) ==
    /\ \A i \in 1..Len(s) : s[i] = PadChar => \A j \in i..Len(s) : s[j] = PadChar
    /\ Cardinality({i \in 1..Len(s) : s[i] = PadChar}) <= 2

\* util.decodeBase64 on a runtime whose decoder is Buffer.from(s, 'base64')
\* (decoding stops at the first "=") or a strict atob (InvalidCharacterError
\* when "=" is anywhere but at the end)
decodeBase64(s, runtime) ==
    IF ~validateBase64(s) THEN Throw("TypeError: invalid encoding")
    ELSE IF runtime = "atob" /\ ~PadOnlyAtEnd(s)
         THEN Throw("InvalidCharacterError")
    ELSE Ok(Base64Bytes(s))

\* ------------------------------------------------------------------- UTF-8
\* util.decodeUTF8: unescape(encodeURIComponent(s)), the UTF-8 bytes of s
RECURSIVE decodeUTF8(_)
decodeUTF8(s) ==
    IF Len(s) = 0 THEN <<>>
    ELSE LET c == s[1] IN
         (IF c < 128 THEN << c >>
          ELSE IF c < 2048 THEN << 192 + (c \div 64), 128 + (c % 64) >>
          ELSE IF c < 65536 THEN
              << 224 + (c \div 4096), 128 + ((c \div 64) % 64), 128 + (c % 64) >>
          ELSE << 240 + (c \div 262144), 128 + ((c \div 4096) % 64),
                  128 + ((c \div 64) % 64), 128 + (c % 64) >>)
         \o decodeUTF8(Tail(s))

IsCont(b) == b >= 128 /\ b < 192

\* decodeURIComponent(escape(...)): the code points of well-formed UTF-8
\* (shortest form, no surrogates); <<-1>> marks a malformed sequence
RECURSIVE Utf8Points(_)
Utf8Points(b) ==
    IF Len(b) = 0 THEN <<>>
    ELSE LET x == b[1] IN
      IF x < 128 THEN <<x>> \o Utf8Points(Tail(b))
      ELSE IF x >= 194 /\ x < 224 /\ Len(b) >= 2 /\ IsCont(b[2]) THEN
          << (x - 192) * 64 + (b[2] - 128) >> \o Utf8Points(SubSeq(b, 3, Len(b)))
      ELSE IF x >= 224 /\ x < 240 /\ Len(b) >= 3 /\ IsCont(b[2]) /\ IsCont(b[3]) THEN
          LET c == (x - 224) * 4096 + (b[2] - 128) * 64 + (b[3] - 128) IN
          IF c < 2048 \/ (c >= 55296 /\ c < 57344) THEN <<-1>>
          ELSE <<c>> \o Utf8Points(SubSeq(b, 4, Len(b)))
      ELSE IF x >= 240 /\ x < 245 /\ Len(b) >= 4
              /\ IsCont(b[2]) /\ IsCont(b[3]) /\ IsCont(b[4]) THEN
          LET c == (x - 240) * 262144 + (b[2] - 128) * 4096
                   + (b[3] - 128) * 64 + (b[4] - 128) IN
          IF c < 65536 \/ c > 1114111 THEN <<-1>>
          ELSE <<c>> \o Utf8Points(SubSeq(b, 5, Len(b)))
      ELSE <<-1>>

\* a JavaScript value that is a Uint8Array or null
Arr(b) == [null |-> FALSE, bytes |-> b]
Null == [null |-> TRUE, bytes |-> <<>>]

\* util.encodeUTF8(arr): reads arr.length first, so null throws a TypeError;
\* malformed UTF-8 makes decodeURIComponent throw a URIError
encodeUTF8(arr) ==
    IF arr.null THEN Throw("TypeError: Cannot read properties of null")
    ELSE LET p == Utf8Points(arr.bytes) IN
         IF \E i \in 1..Len(p) : p[i] = -1 THEN Throw("URIError: URI malformed")
         ELSE Ok(p)

\* --------------------------------------------------------------------- hex
BadHex == 16

RECURSIVE encodeHex(_)
encodeHex(arr) ==
    IF Len(arr) = 0 THEN <<>>
    ELSE << arr[1] \div 16, arr[1] % 16 >> \o encodeHex(Tail(arr))

RECURSIVE HexBytes(_)
HexBytes(s) ==
    IF Len(s) = 0 THEN <<>>
    ELSE << s[1] * 16 + s[2] >> \o HexBytes(SubSeq(s, 3, Len(s)))

decodeHex(s) ==
    IF Len(s) % 2 # 0 \/ \E i \in 1..Len(s) : s[i] \notin 0..15
    THEN Throw("EncodingError")
    ELSE Ok(HexBytes(s))

\* ------------------------------------------------------------ entropy source
\* nacl.randomBytes(n) when the source's draw is r
randomBytes(n, r) == SeqOf([i \in 1..n |-> ((r * 73) + (i * 29)) % 256], n)

\* ------------------------------------------------- NaCl primitives (tweetnacl)
\* The group of crypto_scalarmult is modelled by the subgroup of prime order
\* GroupOrder of the integers modulo GroupPrime, generated by GroupBase.
GroupPrime == 2039
GroupOrder == 1019
GroupBase == 4
HashPrime == 65521
HashBase == 257

\* little-endian value of bytes from position i on, modulo m
RECURSIVE LeModFrom(_, _, _)
LeModFrom(bytes, i, m) ==
    IF i > Len(bytes) THEN 0
    ELSE (bytes[i] + (256 * LeModFrom(bytes, i + 1, m))) % m

LeMod(bytes, m) == LeModFrom(bytes, 1, m)

\* n as len little-endian bytes
RECURSIVE IntToBytes(_, _)
IntToBytes(n, len) ==
    IF len = 0 THEN <<>> ELSE << n % 256 >> \o IntToBytes(n \div 256, len - 1)

RECURSIVE PowMod(_, _, _)
PowMod(b, e, m) ==
    IF e = 0 THEN 1
    ELSE LET h == PowMod(b, e \div 2, m) IN
         IF e % 2 = 0 THEN (h * h) % m ELSE (((h * h) % m) * b) % m

\* the scalar a secret key stands for (never zero)
Scalar(sk) == 1 + LeMod(sk, GroupOrder - 1)

crypto_scalarmult_base(sk) ==
    IntToBytes(PowMod(GroupBase, Scalar(sk), GroupPrime), crypto_box_PUBLICKEYBYTES)

\* faulty variant: a key agreement the two sides compute differently
crypto_scalarmult_lopsided(sk, pk) ==
    IntToBytes(PowMod(LeMod(pk, GroupPrime), Scalar(sk) + 1, GroupPrime), 32)

crypto_scalarmult(sk, pk) ==
    IntToBytes(PowMod(LeMod(pk, GroupPrime), Scalar(sk), GroupPrime), 32)

\* nacl.box.keyPair(): a random secret key and its public key
box_keyPair(r) ==
    LET sk == randomBytes(crypto_box_SECRETKEYBYTES, r) IN
    [publicKey |-> crypto_scalarmult_base(sk), secretKey |-> sk]

\* digest of a byte string: single-bit changes always change it
RECURSIVE HashFrom(_, _)
HashFrom(bytes, i) ==
    IF i > Len(bytes) THEN 1
    ELSE (bytes[i] + 1 + (HashBase * HashFrom(bytes, i + 1))) % HashPrime

Hash(bytes) == HashFrom(bytes, 1)

\* the cipher stream of (key, nonce) at position i
StreamByte(key, nonce, i) == ((Hash(key) * 31) + (Hash(nonce) * 17) + (i * 101)) % 256

StreamXor(m, key, nonce) ==
    LET hk == (Hash(key) * 31) + (Hash(nonce) * 17) IN
    SeqOf([i \in 1..Len(m) |-> Xor(m[i], (hk + (i * 101)) % 256)], Len(m))

\* the 16-byte authenticator of ciphertext c under (key, nonce)
Authenticator(c, key, nonce) ==
    LET hk == Hash(key)  hn == Hash(nonce)  hc == Hash(c) IN
    IntToBytes(hk, 2) \o IntToBytes(hn, 2) \o IntToBytes(hc, 2)
    \o IntToBytes(Len(c), 2)
    \o SeqOf([i \in 1..8 |-> (hk + (3 * hn) + (7 * hc) + i) % 256], 8)

\* faulty variant: no length check on the box keys
checkBoxLengths_none(pk, sk) == "none"

\* checkLengths / checkBoxLengths: the Error a wrong length throws, or "none"
checkLengths(k, n) ==
    IF Len(k) # crypto_secretbox_KEYBYTES THEN "Error: bad key size"
    ELSE IF Len(n) # crypto_secretbox_NONCEBYTES THEN "Error: bad nonce size"
    ELSE "none"

checkBoxLengths(pk, sk) ==
    IF Len(pk) # crypto_box_PUBLICKEYBYTES THEN "Error: bad public key size"
    ELSE IF Len(sk) # crypto_box_SECRETKEYBYTES THEN "Error: bad secret key size"
    ELSE "none"

\* nacl.box.before(publicKey, secretKey): the shared key of the two
box_before(publicKey, secretKey) ==
    IF checkBoxLengths(publicKey, secretKey) # "none"
    THEN Throw(checkBoxLengths(publicKey, secretKey))
    ELSE Ok(crypto_scalarmult(secretKey, publicKey))

\* nacl.secretbox(msg, nonce, key): authenticator, then the ciphertext
secretbox(msg, nonce, key) ==
    IF checkLengths(key, nonce) # "none" THEN Throw(checkLengths(key, nonce))
    ELSE LET c == StreamXor(msg, key, nonce) IN
         Ok(Authenticator(c, key, nonce) \o c)

\* faulty variant: open without verifying the authenticator
secretbox_open_unverified(box, nonce, key) ==
    IF checkLengths(key, nonce) # "none" THEN Throw(checkLengths(key, nonce))
    ELSE IF Len(box) < crypto_secretbox_OVERHEAD THEN Ok(Null)
    ELSE Ok(Arr(StreamXor(SubSeq(box, crypto_secretbox_OVERHEAD + 1, Len(box)),
                          key, nonce)))

\* faulty variant: open that tells a box made under another key from a box that was
\* altered
secretbox_open_leaky(box, nonce, key) ==
    IF checkLengths(key, nonce) # "none" THEN Throw(checkLengths(key, nonce))
    ELSE IF Len(box) < crypto_secretbox_OVERHEAD THEN Ok(Null)
    ELSE LET c == SubSeq(box, crypto_secretbox_OVERHEAD + 1, Len(box)) IN
         IF SubSeq(box, 1, 2) # IntToBytes(Hash(key), 2)
         THEN Throw("Error: wrong key")
         ELSE IF SubSeq(box, 1, crypto_secretbox_OVERHEAD) # Authenticator(c, key, nonce)
         THEN Ok(Null)
         ELSE Ok(Arr(StreamXor(c, key, nonce)))

\* nacl.secretbox.open(box, nonce, key): the message, or null
secretbox_open(box, nonce, key) ==
    IF checkLengths(key, nonce) # "none" THEN Throw(checkLengths(key, nonce))
    ELSE IF Len(box) < crypto_secretbox_OVERHEAD THEN Ok(Null)
    ELSE LET c == SubSeq(box, crypto_secretbox_OVERHEAD + 1, Len(box)) IN
         IF SubSeq(box, 1, crypto_secretbox_OVERHEAD) # Authenticator(c, key, nonce)
         THEN Ok(Null)
         ELSE Ok(Arr(StreamXor(c, key, nonce)))

\* nacl.box(msg, nonce, publicKey, secretKey)
nacl_box(msg, nonce, publicKey, secretKey) ==
    LET k == box_before(publicKey, secretKey) IN
    IF ~k.ok THEN k ELSE secretbox(msg, nonce, k.val)

\* nacl.box.open(msg, nonce, publicKey, secretKey)
nacl_box_open(msg, nonce, publicKey, secretKey) ==
    LET k == box_before(publicKey, secretKey) IN
    IF ~k.ok THEN k ELSE secretbox_open(msg, nonce, k.val)

\* ------------------------------------------- AES-GCM primitive (./aes-gcm)
AES_KEYBYTES == 32
GCM_IVBYTES == 12
GCM_TAGBYTES == 16

\* decode of a base64 component: EncodingError unless well-formed base64
decodeComponent(s) ==
    IF decodeBase64(s, "atob").ok THEN decodeBase64(s, "atob")
    ELSE Throw("EncodingError")

\* AesGCM.encrypt(text, secret) when the source's draw for the IV is r
AesGCM_encrypt(text, secret, r) ==
    LET key == decodeHex(secret) IN
    IF ~key.ok \/ Len(key.val) # AES_KEYBYTES THEN Throw("KeyFormatError")
    ELSE LET iv == randomBytes(GCM_IVBYTES, r)
             c == StreamXor(decodeUTF8(text), key.val, iv)
         IN Ok([ciphertext |-> encodeBase64(c),
                iv |-> encodeBase64(iv),
                tag |-> encodeBase64(Authenticator(c, key.val, iv))])

\* AesGCM.decrypt(ciphertext, iv, tag, secret)
AesGCM_decrypt(ciphertext, iv, tag, secret) ==
    LET key == decodeHex(secret)
        c == decodeComponent(ciphertext)
        i == decodeComponent(iv)
        t == decodeComponent(tag)
    IN IF ~key.ok \/ Len(key.val) # AES_KEYBYTES THEN Throw("KeyFormatError")
       ELSE IF ~c.ok THEN c
       ELSE IF ~i.ok THEN i
       ELSE IF ~t.ok THEN t
       ELSE IF Len(i.val) # GCM_IVBYTES \/ Len(t.val) # GCM_TAGBYTES
            THEN Throw("KeyFormatError")
       ELSE IF t.val # Authenticator(c.val, key.val, i.val)
            THEN Throw("AuthenticationError")
       ELSE LET p == Utf8Points(StreamXor(c.val, key.val, i.val)) IN
            IF \E j \in 1..Len(p) : p[j] = -1 THEN Throw("EncodingError")
            ELSE Ok(p)

\* ------------------------------------------------------------- crypto.ts
\* generateKeyPair() when the source's draw is r
generateKeyPair(r) ==
    LET pair == box_keyPair(r) IN
    [publicKey |-> encodeBase64(pair.publicKey),
     privateKey |-> encodeBase64(pair.secretKey)]

\* encryptAsymmetric, lines 41-46: nacl.box on the decoded arguments
encryptAsymmetric_box(plaintext, nonce, publicKey, privateKey, runtime) ==
    LET msg == decodeUTF8(plaintext)
        pk == decodeBase64(publicKey, runtime)
        sk == decodeBase64(privateKey, runtime)
    IN IF ~pk.ok THEN pk
       ELSE IF ~sk.ok THEN sk
       ELSE nacl_box(msg, nonce, pk.val, sk.val)

\* encryptAsymmetric, lines 48-51: the returned object
encryptAsymmetric_return(ciphertext, nonce) ==
    Ok([ciphertext |-> encodeBase64(ciphertext), nonce |-> encodeBase64(nonce)])

\* faulty variant: the two keys handed to nacl.box in the wrong order
encryptAsymmetric_keysSwapped(plaintext, publicKey, privateKey, r, runtime) ==
    LET nonce == randomBytes(crypto_secretbox_NONCEBYTES, r)
        ciphertext == encryptAsymmetric_box(plaintext, nonce, privateKey,
                                            publicKey, runtime)
    IN IF ~ciphertext.ok THEN ciphertext
       ELSE encryptAsymmetric_return(ciphertext.val, nonce)

\* faulty variant: a nonce that does not come from the random source
encryptAsymmetric_fixedNonce(plaintext, publicKey, privateKey, r, runtime) ==
    LET nonce == randomBytes(crypto_secretbox_NONCEBYTES, 0)
        ciphertext == encryptAsymmetric_box(plaintext, nonce, publicKey,
                                            privateKey, runtime)
    IN IF ~ciphertext.ok THEN ciphertext
       ELSE encryptAsymmetric_return(ciphertext.val, nonce)

\* encryptAsymmetric({plaintext, publicKey, privateKey}) when the source's
\* draw for the nonce is r
encryptAsymmetric(plaintext, publicKey, privateKey, r, runtime) ==
    LET nonce == randomBytes(crypto_secretbox_NONCEBYTES, r)
        ciphertext == encryptAsymmetric_box(plaintext, nonce, publicKey,
                                            privateKey, runtime)
    IN IF ~ciphertext.ok THEN ciphertext
       ELSE encryptAsymmetric_return(ciphertext.val, nonce)

\* decryptAsymmetric, lines 75-80: nacl.box.open on the decoded arguments
decryptAsymmetric_open(ciphertext, nonce, publicKey, privateKey, runtime) ==
    LET c == decodeBase64(ciphertext, runtime)
        n == decodeBase64(nonce, runtime)
        pk == decodeBase64(publicKey, runtime)
        sk == decodeBase64(privateKey, runtime)
    IN IF ~c.ok THEN c
       ELSE IF ~n.ok THEN n
       ELSE IF ~pk.ok THEN pk
       ELSE IF ~sk.ok THEN sk
       ELSE nacl_box_open(c.val, n.val, pk.val, sk.val)

\* faulty variant: a failed open read as the empty plaintext
decryptAsymmetric_nullAsEmpty(ciphertext, nonce, publicKey, privateKey, runtime) ==
    LET plaintext == decryptAsymmetric_open(ciphertext, nonce, publicKey,
                                            privateKey, runtime)
    IN IF ~plaintext.ok THEN plaintext
       ELSE IF plaintext.val.null THEN Ok(<< >>)
       ELSE encodeUTF8(plaintext.val)

\* decryptAsymmetric({ciphertext, nonce, publicKey, privateKey})
decryptAsymmetric(ciphertext, nonce, publicKey, privateKey, runtime) ==
    LET plaintext == decryptAsymmetric_open(ciphertext, nonce, publicKey,
                                            privateKey, runtime)
    IN IF ~plaintext.ok THEN plaintext
       ELSE encodeUTF8(plaintext.val)

\* encryptSymmetric({plaintext, key})
encryptSymmetric(plaintext, key, r) ==
    LET obj == AesGCM_encrypt(plaintext, key, r) IN
    IF ~obj.ok THEN obj
    ELSE Ok([ciphertext |-> obj.val.ciphertext, iv |-> obj.val.iv,
             tag |-> obj.val.tag])

\* faulty variant: the IV and the tag handed to AesGCM.decrypt in the wrong order
decryptSymmetric_ivTagSwapped(ciphertext, iv, tag, key) ==
    AesGCM_decrypt(ciphertext, tag, iv, key)

\* decryptSymmetric({ciphertext, iv, tag, key})
decryptSymmetric(ciphertext, iv, tag, key) ==
    AesGCM_decrypt(ciphertext, iv, tag, key)

\* ------------------------------------------------------------------ callers
VARIABLES
    keyring,   \* the key pairs generateKeyPair has returned
    sent,      \* the caller's latest encrypt call, with its outcome
    rcvd,      \* the decrypt call made on what was sent, with its outcome
    prev,      \* an earlier encrypt call with the keys of `sent`
    tasks,     \* concurrent callers: each one's call and how far it has run
    frames     \* the local bindings of the calls in progress

vars == << keyring, sent, rcvd, prev, tasks, frames >>

Draws == 1..MaxDraw
\* the plaintexts the callers encrypt: "", "\u00e9" and "h\u20ac" (0, 2 and 4
\* bytes of UTF-8; ciphertexts whose base64 ends "==", unpadded and "=")
Plaintexts == { << >>, << 233 >>, << 104, 8364 >> }
NoCall == [op |-> "none"]
Tasks == {1, 2}
Idle == [pc |-> "idle"]
NoFrame == [use |-> "none"]

\* the hex keys the callers share
SharedKeys == {encodeHex(randomBytes(AES_KEYBYTES, 100 + r)) : r \in Draws}

\* texts that are not well-formed base64, made from the base64 text t
Malformed(t) ==
    { [t EXCEPT ![1] = BadChar],         \* a character outside the alphabet
      SubSeq(t, 1, Len(t) - 1),          \* a length that is no multiple of 4
      [t EXCEPT ![3] = PadChar],         \* "=" inside the text
      t \o << 0, 0, 0, 0 >> }            \* characters after the text's end

\* well-formed base64 of one byte less and one byte more than t holds
WrongLength(t) ==
    LET b == Base64Bytes(t) IN
    { encodeBase64(SubSeq(b, 1, Len(b) - 1)), encodeBase64(b \o << 0 >>) }

\* the bits of a byte the callers' tampering flips: the lowest and the highest
FlipBits == {0, 7}

\* t with one bit of one of its bytes flipped, for every byte
Flips(t) ==
    LET b == Base64Bytes(t) IN
    { encodeBase64(FlipBit(b, i, k)) : i \in 1..Len(b), k \in FlipBits }

\* hex text with one bit of one of its bytes flipped, for every byte
HexFlips(t) ==
    LET b == HexBytes(t) IN
    { encodeHex(FlipBit(b, i, k)) : i \in 1..Len(b), k \in FlipBits }

\* util.decodeBase64 differs between builds: where atob is undefined it is
\* Buffer.from(s, 'base64'), which stops at the first "="; elsewhere it is
\* atob, which rejects a "=" that is not at the end.  The two agree on every
\* text validateBase64 rejects and on every text whose "=" are at its end, so
\* one decoder stands for both on such texts.
Decoders(texts) ==
    IF \E t \in texts : validateBase64(t) /\ ~PadOnlyAtEnd(t)
    THEN {"buffer", "atob"}
    ELSE {"buffer"}

PublicKeys == {k.publicKey : k \in keyring}
PrivateKeys == {k.privateKey : k \in keyring}

\* the key arguments a caller passes: two held keys, or one of them replaced
\* by a text that is malformed or of the wrong length
KeyArgs ==
    (PublicKeys \X PrivateKeys)
    \cup UNION {(Malformed(pk) \cup WrongLength(pk)) \X PrivateKeys : pk \in PublicKeys}
    \cup UNION {PublicKeys \X (Malformed(sk) \cup WrongLength(sk)) : sk \in PrivateKeys}

\* the pairs whose private key encrypted `sent`, and those it was sent to
Senders == {k \in keyring : k.privateKey = sent.privateKey}
Recipients == {k \in keyring : k.publicKey = sent.publicKey}

\* the arguments of a decrypt call on what was sent: the ciphertext and nonce
\* as returned with any two held keys, or the recipient's call with one
\* argument tampered with, malformed or of the wrong length
OpenArgs ==
    LET c == sent.out.val.ciphertext
        n == sent.out.val.nonce
    IN { <<c, n, pk, sk>> : pk \in PublicKeys, sk \in PrivateKeys }
       \cup UNION {
              { <<x, n, a.publicKey, b.privateKey>> : x \in Flips(c) \cup Malformed(c) }
              \cup { <<c, x, a.publicKey, b.privateKey>> :
                        x \in Flips(n) \cup Malformed(n) \cup WrongLength(n) }
              \cup { <<c, n, x, b.privateKey>> :
                        x \in Malformed(a.publicKey) \cup WrongLength(a.publicKey) }
              \cup { <<c, n, a.publicKey, x>> :
                        x \in Malformed(b.privateKey) \cup WrongLength(b.privateKey) }
              : a \in Senders, b \in Recipients }

Init ==
    /\ keyring = {}
    /\ sent = NoCall
    /\ rcvd = NoCall
    /\ prev = NoCall
    /\ tasks = [t \in Tasks |-> Idle]
    /\ frames = [t \in Tasks |-> NoFrame]

GenerateKeyPair ==
    /\ sent.op = "none"
    /\ \E r \in Draws : keyring' = keyring \cup {generateKeyPair(r)}
    /\ UNCHANGED << sent, rcvd, prev, tasks, frames >>

EncryptAsymmetric ==
    /\ sent.op = "none"
    /\ \E p \in Plaintexts, k \in KeyArgs, r \in Draws :
       \E runtime \in Decoders({k[1], k[2]}) :
         sent' = [op |-> "encryptAsymmetric", plaintext |-> p,
                  publicKey |-> k[1], privateKey |-> k[2], draw |-> r,
                  decoder |-> runtime,
                  out |-> encryptAsymmetric(p, k[1], k[2], r, runtime)]
    /\ UNCHANGED << keyring, rcvd, prev, tasks, frames >>

DecryptAsymmetric ==
    /\ sent.op = "encryptAsymmetric"
    /\ sent.out.ok
    /\ rcvd.op = "none"
    /\ \E x \in OpenArgs :
       \E runtime \in Decoders({x[1], x[2], x[3], x[4]}) :
         rcvd' = [op |-> "decryptAsymmetric", ciphertext |-> x[1], nonce |-> x[2],
                  publicKey |-> x[3], privateKey |-> x[4], decoder |-> runtime,
                  out |-> decryptAsymmetric(x[1], x[2], x[3], x[4], runtime)]
    /\ UNCHANGED << keyring, sent, prev, tasks, frames >>

\* the arguments of a decryptSymmetric call on what was sent: the returned
\* ciphertext, iv and tag with any shared key or a key one bit away from the
\* one used, or with one argument tampered with, malformed or of the wrong
\* length
OpenSymArgs ==
    LET c == sent.out.val.ciphertext
        i == sent.out.val.iv
        t == sent.out.val.tag
        k == sent.key
    IN { <<c, i, t, x>> : x \in SharedKeys \cup HexFlips(k)
                                 \cup {[k EXCEPT ![1] = BadHex], Tail(k)} }
       \cup { <<x, i, t, k>> : x \in Flips(c) \cup Malformed(c) }
       \cup { <<c, x, t, k>> : x \in Flips(i) \cup Malformed(i) \cup WrongLength(i) }
       \cup { <<c, i, x, k>> : x \in Flips(t) \cup Malformed(t) \cup WrongLength(t) }

\* (encryptSymmetric reads no key pair: it is explored for the callers that
\* hold none)
EncryptSymmetric ==
    /\ sent.op = "none"
    /\ keyring = {}
    /\ \E p \in Plaintexts, r \in Draws,
          k \in SharedKeys \cup UNION {{[x EXCEPT ![1] = BadHex], Tail(x),
                                        SubSeq(x, 1, Len(x) - 2)} : x \in SharedKeys} :
         sent' = [op |-> "encryptSymmetric", plaintext |-> p, key |-> k,
                  draw |-> r, out |-> encryptSymmetric(p, k, r)]
    /\ UNCHANGED << keyring, rcvd, prev, tasks, frames >>

DecryptSymmetric ==
    /\ sent.op = "encryptSymmetric"
    /\ sent.out.ok
    /\ rcvd.op = "none"
    /\ \E x \in OpenSymArgs :
         rcvd' = [op |-> "decryptSymmetric", ciphertext |-> x[1], iv |-> x[2],
                  tag |-> x[3], key |-> x[4],
                  out |-> decryptSymmetric(x[1], x[2], x[3], x[4])]
    /\ UNCHANGED << keyring, sent, prev, tasks, frames >>

Discard ==
    /\ sent.op # "none"
    /\ sent' = NoCall
    /\ rcvd' = NoCall
    /\ prev' = NoCall
    /\ UNCHANGED << keyring, tasks, frames >>

Next ==
    \/ GenerateKeyPair
    \/ EncryptAsymmetric
    \/ DecryptAsymmetric
    \/ EncryptSymmetric
    \/ DecryptSymmetric
    \/ Discard

Spec == Init /\ [][Next]_vars

\* ------------------------------------------------------------------ claims
\* the exceptions of the code, by the error class they stand for
EncodingErrors ==
    { "TypeError: invalid encoding", "InvalidCharacterError",
      "URIError: URI malformed", "EncodingError" }
KeyFormatErrors ==
    { "Error: bad public key size", "Error: bad secret key size",
      "Error: bad key size", "Error: bad nonce size", "KeyFormatError" }
AuthenticationErrors ==
    { "TypeError: Cannot read properties of null", "AuthenticationError" }

FailsWith(out, errors) == ~out.ok /\ out.err \in errors

\* base64 text with "=" only as padding at its end
WellFormed(t) == validateBase64(t) /\ PadOnlyAtEnd(t)

\* two well-formed base64 texts whose bytes differ in exactly one bit
OneBitApart(t, u) ==
    /\ WellFormed(t) /\ WellFormed(u)
    /\ LET a == Base64Bytes(t)
           b == Base64Bytes(u)
       IN /\ Len(a) = Len(b)
          /\ \E i \in 1..Len(a) :
                /\ Xor(a[i], b[i]) \in {1, 2, 4, 8, 16, 32, 64, 128}
                /\ \A j \in 1..Len(a) : j # i => a[j] = b[j]

OpenedA == rcvd.op = "decryptAsymmetric"
OpenedS == rcvd.op = "decryptSymmetric"

\* the decrypt call was given the ciphertext and nonce that encrypt returned
WireIntact ==
    /\ rcvd.ciphertext = sent.out.val.ciphertext
    /\ rcvd.nonce = sent.out.val.nonce

\* the decrypt call was made with the sender's public key and the
\* recipient's private key
RecipientKeys ==
    \E a \in Senders, b \in Recipients :
        rcvd.publicKey = a.publicKey /\ rcvd.privateKey = b.privateKey

\* C1: decryptAsymmetric, given the ciphertext and nonce encryptAsymmetric
\* returned for plaintext P sealed from pair A to pair B, with A's public key
\* and B's private key, returns exactly P.
RoundTripAsymmetric ==
    (OpenedA /\ WireIntact /\ RecipientKeys) => rcvd.out = Ok(sent.plaintext)

RoundTripAsymmetricWitness ==
    /\ OpenedA /\ WireIntact /\ RecipientKeys
    /\ sent.plaintext = << 104, 8364 >>
    /\ rcvd.out.ok
    /\ \E a \in Senders, b \in Recipients : a # b

\* C2: decryptSymmetric, given the ciphertext, iv and tag encryptSymmetric
\* returned for plaintext P under key K, and K, returns exactly P.
RoundTripSymmetric ==
    (/\ OpenedS
     /\ rcvd.ciphertext = sent.out.val.ciphertext
     /\ rcvd.iv = sent.out.val.iv
     /\ rcvd.tag = sent.out.val.tag
     /\ rcvd.key = sent.key)
    => rcvd.out = Ok(sent.plaintext)

RoundTripSymmetricWitness ==
    /\ OpenedS
    /\ rcvd.ciphertext = sent.out.val.ciphertext
    /\ rcvd.iv = sent.out.val.iv
    /\ rcvd.tag = sent.out.val.tag
    /\ rcvd.key = sent.key
    /\ sent.plaintext = << 104, 8364 >>
    /\ rcvd.out.ok

\* one of ciphertext and nonce is one bit away from what encrypt returned,
\* the other is as returned
TamperedA ==
    \/ OneBitApart(rcvd.ciphertext, sent.out.val.ciphertext)
         /\ rcvd.nonce = sent.out.val.nonce
    \/ rcvd.ciphertext = sent.out.val.ciphertext
         /\ OneBitApart(rcvd.nonce, sent.out.val.nonce)

\* one of ciphertext, iv and tag is one bit away from what encrypt returned,
\* the others are as returned
TamperedS ==
    \/ /\ OneBitApart(rcvd.ciphertext, sent.out.val.ciphertext)
       /\ rcvd.iv = sent.out.val.iv /\ rcvd.tag = sent.out.val.tag
    \/ /\ rcvd.ciphertext = sent.out.val.ciphertext
       /\ OneBitApart(rcvd.iv, sent.out.val.iv) /\ rcvd.tag = sent.out.val.tag
    \/ /\ rcvd.ciphertext = sent.out.val.ciphertext
       /\ rcvd.iv = sent.out.val.iv /\ OneBitApart(rcvd.tag, sent.out.val.tag)

WrongKeysA ==
    /\ Senders # {} /\ Recipients # {}
    /\ \/ \E a \in Senders, x \in keyring \ Recipients :
             rcvd.publicKey = a.publicKey /\ rcvd.privateKey = x.privateKey
       \/ \E b \in Recipients, x \in keyring \ Senders :
             rcvd.publicKey = x.publicKey /\ rcvd.privateKey = b.privateKey

\* a well-formed key of the right length that is not the key used to encrypt
WrongKeyS ==
    /\ rcvd.key # sent.key
    /\ decodeHex(rcvd.key).ok
    /\ Len(decodeHex(rcvd.key).val) = AES_KEYBYTES

IntactS ==
    /\ rcvd.ciphertext = sent.out.val.ciphertext
    /\ rcvd.iv = sent.out.val.iv
    /\ rcvd.tag = sent.out.val.tag

DecodedLen(t, call) == Len(decodeBase64(t, call.decoder).val)
Decodes(t, call) == decodeBase64(t, call.decoder).ok

BadSizeSent ==
    /\ sent.op = "encryptAsymmetric"
    /\ Decodes(sent.publicKey, sent) /\ Decodes(sent.privateKey, sent)
    /\ \/ DecodedLen(sent.publicKey, sent) # 32
       \/ DecodedLen(sent.privateKey, sent) # 32

BadSizeRcvd ==
    /\ OpenedA
    /\ Decodes(rcvd.ciphertext, rcvd) /\ Decodes(rcvd.nonce, rcvd)
    /\ Decodes(rcvd.publicKey, rcvd) /\ Decodes(rcvd.privateKey, rcvd)
    /\ \/ DecodedLen(rcvd.publicKey, rcvd) # 32
       \/ DecodedLen(rcvd.privateKey, rcvd) # 32
       \/ DecodedLen(rcvd.nonce, rcvd) # 24

\* C5: encryptAsymmetric fails with the key-format failure, returning no
\* ciphertext, when a decoded key is not 32 bytes; decryptAsymmetric does
\* when a decoded key is not 32 bytes or the decoded nonce is not 24 bytes.
LengthValidated ==
    /\ BadSizeSent => FailsWith(sent.out, KeyFormatErrors)
    /\ BadSizeRcvd => FailsWith(rcvd.out, KeyFormatErrors)

LengthValidatedWitness ==
    /\ BadSizeRcvd
    /\ DecodedLen(rcvd.nonce, rcvd) = 23
    /\ rcvd.out.err = "Error: bad nonce size"

\* some key, nonce or ciphertext argument of the call is not well-formed base64
MalformedSent ==
    /\ sent.op = "encryptAsymmetric"
    /\ ~WellFormed(sent.publicKey) \/ ~WellFormed(sent.privateKey)

MalformedRcvd ==
    /\ OpenedA
    /\ \/ ~WellFormed(rcvd.ciphertext) \/ ~WellFormed(rcvd.nonce)
       \/ ~WellFormed(rcvd.publicKey) \/ ~WellFormed(rcvd.privateKey)

\* C7: an encryptAsymmetric or decryptAsymmetric call with a key, nonce or
\* ciphertext argument that is not well-formed base64 fails with the encoding
\* or the key-format failure, and returns nothing.
MalformedRejected ==
    /\ MalformedSent => FailsWith(sent.out, EncodingErrors \cup KeyFormatErrors)
    /\ MalformedRcvd => FailsWith(rcvd.out, EncodingErrors \cup KeyFormatErrors)

\* what the caller of decryptAsymmetric observes when nacl.box.open returns
\* null (line 82 on the null of lines 75-80)
AuthFailure == encodeUTF8(Null)

\* C8: a decryptAsymmetric call that fails the authentication check because
\* the ciphertext or nonce was tampered with, and one that fails it because a
\* wrong key was supplied, give the caller one and the same outcome.
GenericAuthFailure ==
    (OpenedA /\ ((RecipientKeys /\ TamperedA) \/ (WireIntact /\ WrongKeysA)))
        => rcvd.out = AuthFailure

\* the sender's public key replaced by the public key of another pair
GenericAuthFailureWitness ==
    /\ OpenedA /\ WireIntact
    /\ \E b \in Recipients, x \in keyring \ Senders :
          rcvd.publicKey = x.publicKey /\ rcvd.privateKey = b.privateKey
    /\ Senders # {}
    /\ rcvd.out = AuthFailure

\* the decrypt call was made with the arguments of the encrypt call: the
\* recipient's public key and the sender's private key
SenderKeys ==
    /\ Senders # {} /\ Recipients # {}
    /\ rcvd.publicKey = sent.publicKey
    /\ rcvd.privateKey = sent.privateKey

\* C10: what encryptAsymmetric sealed from pair A to pair B is also opened
\* with B's public key and A's private key, and of the keys of A and B only
\* (A.public, B.private) and (B.public, A.private) open it.
BoxSymmetry ==
    /\ (OpenedA /\ WireIntact /\ SenderKeys) => rcvd.out = Ok(sent.plaintext)
    /\ (OpenedA /\ WireIntact) =>
          \A a \in Senders, b \in Recipients :
             (/\ rcvd.publicKey \in {a.publicKey, b.publicKey}
              /\ rcvd.privateKey \in {a.privateKey, b.privateKey})
             => (rcvd.out.ok <=>
                   \/ rcvd.publicKey = a.publicKey /\ rcvd.privateKey = b.privateKey
                   \/ rcvd.publicKey = b.publicKey /\ rcvd.privateKey = a.privateKey)

BoxSymmetryWitness ==
    /\ OpenedA /\ WireIntact /\ SenderKeys
    /\ \E a \in Senders, b \in Recipients : a # b
    /\ sent.plaintext # << >>
    /\ rcvd.out.ok

\* ------------------------------------------------ successive encryptions
\* a second encryptAsymmetric call with the keys of `sent`; the earlier call
\* is kept in `prev` (or, once `prev` is taken, may be forgotten, so that
\* `prev` and `sent` are any two calls of the sequence)
EncryptAsymmetricAgain ==
    /\ sent.op = "encryptAsymmetric"
    /\ sent.out.ok
    /\ \E p \in Plaintexts, r \in Draws :
         sent' = [sent EXCEPT !.plaintext = p, !.draw = r,
                    !.out = encryptAsymmetric(p, sent.publicKey, sent.privateKey,
                                              r, sent.decoder)]
    /\ prev' \in (IF prev.op = "none" THEN {sent} ELSE {prev, sent})
    /\ UNCHANGED << keyring, rcvd, tasks, frames >>

\* a second encryptSymmetric call with the key of `sent`
EncryptSymmetricAgain ==
    /\ sent.op = "encryptSymmetric"
    /\ sent.out.ok
    /\ \E p \in Plaintexts, r \in Draws :
         sent' = [sent EXCEPT !.plaintext = p, !.draw = r,
                    !.out = encryptSymmetric(p, sent.key, r)]
    /\ prev' \in (IF prev.op = "none" THEN {sent} ELSE {prev, sent})
    /\ UNCHANGED << keyring, rcvd, tasks, frames >>

NextNonce ==
    \/ GenerateKeyPair
    \/ EncryptAsymmetric
    \/ EncryptAsymmetricAgain
    \/ EncryptSymmetric
    \/ EncryptSymmetricAgain
    \/ Discard

SpecNonce == Init /\ [][NextNonce]_vars

\* `prev` and `sent` are two encryptions with the same key(s)
TwoAsymmetric ==
    /\ prev.op = "encryptAsymmetric" /\ sent.op = "encryptAsymmetric"
    /\ prev.publicKey = sent.publicKey /\ prev.privateKey = sent.privateKey
    /\ prev.out.ok /\ sent.out.ok

TwoSymmetric ==
    /\ prev.op = "encryptSymmetric" /\ sent.op = "encryptSymmetric"
    /\ prev.key = sent.key
    /\ prev.out.ok /\ sent.out.ok

FrameShared(t) == 1

\* the bindings a call of task t reads and writes
FrameOf(t) == t

\* bindings not yet assigned
BlankFrame ==
    [use |-> "call",
     pair |-> [publicKey |-> << >>, secretKey |-> << >>],
     nonce |-> << >>,
     ciphertext |-> << >>,
     plaintext |-> Null,
     obj |-> [ciphertext |-> << >>, iv |-> << >>, tag |-> << >>]]

\* the key pairs the concurrent callers hold
HeldPairs == {generateKeyPair(r) : r \in Draws}
\* the pair the callers send from
SenderPair == generateKeyPair(1)
\* the plaintext the concurrent callers encrypt: "h€"
ConcPlaintext == << 104, 8364 >>

InitConc ==
    /\ keyring = HeldPairs
    /\ sent = NoCall
    /\ rcvd = NoCall
    /\ prev = NoCall
    /\ tasks = [t \in Tasks |-> Idle]
    /\ frames = [t \in Tasks |-> NoFrame]

\* task t enters a call: its bindings are fresh
Enter(t, call) ==
    /\ tasks[t].pc = "idle"
    /\ tasks' = [tasks EXCEPT ![t] = call]
    /\ frames' = [frames EXCEPT ![FrameOf(t)] = BlankFrame]
    /\ UNCHANGED << keyring, sent, rcvd, prev >>

\* task t's call ends with outcome out
Leave(t, out) ==
    tasks' = [tasks EXCEPT ![t] = [@ EXCEPT !.pc = "done", !.out = out]]

Call_generateKeyPair ==
    \E t \in Tasks, r \in Draws :
        Enter(t, [pc |-> "keyPair", op |-> "generateKeyPair", draw |-> r,
                  out |-> Throw("pending")])

\* line 12
Step_keyPair ==
    \E t \in Tasks :
        /\ tasks[t].pc = "keyPair"
        /\ frames' = [frames EXCEPT ![FrameOf(t)].pair = box_keyPair(tasks[t].draw)]
        /\ tasks' = [tasks EXCEPT ![t].pc = "returnPair"]
        /\ UNCHANGED << keyring, sent, rcvd, prev >>

\* lines 14-17
Step_returnPair ==
    \E t \in Tasks :
        /\ tasks[t].pc = "returnPair"
        /\ Leave(t, Ok([publicKey |-> encodeBase64(frames[FrameOf(t)].pair.publicKey),
                        privateKey |-> encodeBase64(frames[FrameOf(t)].pair.secretKey)]))
        /\ UNCHANGED << keyring, sent, rcvd, prev, frames >>

Call_encryptAsymmetric ==
    \E t \in Tasks, b \in keyring, r \in Draws :
        Enter(t, [pc |-> "nonce", op |-> "encryptAsymmetric",
                  plaintext |-> ConcPlaintext, publicKey |-> b.publicKey,
                  privateKey |-> SenderPair.privateKey, draw |-> r,
                  out |-> Throw("pending")])

\* line 40
Step_nonce ==
    \E t \in Tasks :
        /\ tasks[t].pc = "nonce"
        /\ frames' = [frames EXCEPT ![FrameOf(t)].nonce =
                         randomBytes(crypto_secretbox_NONCEBYTES, tasks[t].draw)]
        /\ tasks' = [tasks EXCEPT ![t].pc = "box"]
        /\ UNCHANGED << keyring, sent, rcvd, prev >>

\* lines 41-46
Step_box ==
    \E t \in Tasks :
        /\ tasks[t].pc = "box"
        /\ LET c == encryptAsymmetric_box(tasks[t].plaintext, frames[FrameOf(t)].nonce,
                                          tasks[t].publicKey, tasks[t].privateKey,
                                          "buffer")
           IN IF c.ok
              THEN /\ frames' = [frames EXCEPT ![FrameOf(t)].ciphertext = c.val]
                   /\ tasks' = [tasks EXCEPT ![t].pc = "returnBox"]
              ELSE /\ Leave(t, c)
                   /\ UNCHANGED frames
        /\ UNCHANGED << keyring, sent, rcvd, prev >>

\* lines 48-51
Step_returnBox ==
    \E t \in Tasks :
        /\ tasks[t].pc = "returnBox"
        /\ Leave(t, encryptAsymmetric_return(frames[FrameOf(t)].ciphertext,
                                             frames[FrameOf(t)].nonce))
        /\ UNCHANGED << keyring, sent, rcvd, prev, frames >>

\* a decryptAsymmetric call on what a call of the other task returned
Call_decryptAsymmetric ==
    \E t \in Tasks, k \in keyring : \E u \in Tasks \ {t} :
        /\ tasks[u].pc = "done"
        /\ tasks[u].op = "encryptAsymmetric"
        /\ tasks[u].out.ok
        /\ Enter(t, [pc |-> "open", op |-> "decryptAsymmetric",
                     ciphertext |-> tasks[u].out.val.ciphertext,
                     nonce |-> tasks[u].out.val.nonce,
                     publicKey |-> SenderPair.publicKey,
                     privateKey |-> k.privateKey,
                     out |-> Throw("pending")])

\* lines 75-80
Step_open ==
    \E t \in Tasks :
        /\ tasks[t].pc = "open"
        /\ LET m == decryptAsymmetric_open(tasks[t].ciphertext, tasks[t].nonce,
                                           tasks[t].publicKey, tasks[t].privateKey,
                                           "buffer")
           IN IF m.ok
              THEN /\ frames' = [frames EXCEPT ![FrameOf(t)].plaintext = m.val]
                   /\ tasks' = [tasks EXCEPT ![t].pc = "returnText"]
              ELSE /\ Leave(t, m)
                   /\ UNCHANGED frames
        /\ UNCHANGED << keyring, sent, rcvd, prev >>

\* line 82
Step_returnText ==
    \E t \in Tasks :
        /\ tasks[t].pc = "returnText"
        /\ Leave(t, encodeUTF8(frames[FrameOf(t)].plaintext))
        /\ UNCHANGED << keyring, sent, rcvd, prev, frames >>

Call_encryptSymmetric ==
    \E t \in Tasks, k \in SharedKeys, r \in Draws :
        Enter(t, [pc |-> "aesEncrypt", op |-> "encryptSymmetric",
                  plaintext |-> ConcPlaintext, key |-> k, draw |-> r,
                  out |-> Throw("pending")])

\* line 98
Step_aesEncrypt ==
    \E t \in Tasks :
        /\ tasks[t].pc = "aesEncrypt"
        /\ LET obj == AesGCM_encrypt(tasks[t].plaintext, tasks[t].key, tasks[t].draw)
           IN IF obj.ok
              THEN /\ frames' = [frames EXCEPT ![FrameOf(t)].obj = obj.val]
                   /\ tasks' = [tasks EXCEPT ![t].pc = "returnObj"]
              ELSE /\ Leave(t, obj)
                   /\ UNCHANGED frames
        /\ UNCHANGED << keyring, sent, rcvd, prev >>

\* lines 99-105
Step_returnObj ==
    \E t \in Tasks :
        /\ tasks[t].pc = "returnObj"
        /\ Leave(t, Ok([ciphertext |-> frames[FrameOf(t)].obj.ciphertext,
                        iv |-> frames[FrameOf(t)].obj.iv,
                        tag |-> frames[FrameOf(t)].obj.tag]))
        /\ UNCHANGED << keyring, sent, rcvd, prev, frames >>

\* a decryptSymmetric call on what a call of the other task returned
\* (line 129; line 130 returns its binding as it is)
Call_decryptSymmetric ==
    \E t \in Tasks, k \in SharedKeys : \E u \in Tasks \ {t} :
        /\ tasks[u].pc = "done"
        /\ tasks[u].op = "encryptSymmetric"
        /\ tasks[u].out.ok
        /\ Enter(t, [pc |-> "aesDecrypt", op |-> "decryptSymmetric",
                     ciphertext |-> tasks[u].out.val.ciphertext,
                     iv |-> tasks[u].out.val.iv,
                     tag |-> tasks[u].out.val.tag,
                     key |-> k,
                     out |-> Throw("pending")])

Step_aesDecrypt ==
    \E t \in Tasks :
        /\ tasks[t].pc = "aesDecrypt"
        /\ Leave(t, decryptSymmetric(tasks[t].ciphertext, tasks[t].iv,
                                     tasks[t].tag, tasks[t].key))
        /\ UNCHANGED << keyring, sent, rcvd, prev, frames >>

\* the caller takes the result; the task is free for its next call
Finish ==
    \E t \in Tasks :
        /\ tasks[t].pc = "done"
        /\ tasks' = [tasks EXCEPT ![t] = Idle]
        /\ UNCHANGED << keyring, sent, rcvd, prev, frames >>

NextConc ==
    \/ Call_generateKeyPair
    \/ Step_keyPair
    \/ Step_returnPair
    \/ Call_encryptAsymmetric
    \/ Step_nonce
    \/ Step_box
    \/ Step_returnBox
    \/ Call_decryptAsymmetric
    \/ Step_open
    \/ Step_returnText
    \/ Call_encryptSymmetric
    \/ Step_aesEncrypt
    \/ Step_returnObj
    \/ Call_decryptSymmetric
    \/ Step_aesDecrypt
    \/ Finish

SpecConc == InitConc /\ [][NextConc]_vars

\* the result of the call when it runs alone, from its own arguments and draw
Alone(call) ==
    CASE call.op = "generateKeyPair" -> Ok(generateKeyPair(call.draw))
      [] call.op = "encryptAsymmetric" ->
            encryptAsymmetric(call.plaintext, call.publicKey, call.privateKey,
                              call.draw, "buffer")
      [] call.op = "decryptAsymmetric" ->
            decryptAsymmetric(call.ciphertext, call.nonce, call.publicKey,
                              call.privateKey, "buffer")
      [] call.op = "encryptSymmetric" ->
            encryptSymmetric(call.plaintext, call.key, call.draw)
      [] call.op = "decryptSymmetric" ->
            decryptSymmetric(call.ciphertext, call.iv, call.tag, call.key)

\* C9: however the statements of concurrent calls interleave, every call
\* ends with the result it gives when run alone on its own arguments and its
\* own draw from the random source.
Stateless ==
    \A t \in Tasks : tasks[t].pc = "done" => tasks[t].out = Alone(tasks[t])

\* an encryption that ended after the other task ran statements of a
\* decryption between its statements
StatelessWitness ==
    \E t \in Tasks : \E u \in Tasks \ {t} :
        /\ tasks[t].pc = "done" /\ tasks[t].op = "encryptAsymmetric"
        /\ tasks[t].out.ok
        /\ tasks[u].pc = "returnText"
        /\ tasks[u].nonce # tasks[t].out.val.nonce

====
